---- MODULE Spec2Model ----
(***************************************************************************)
(* A model of jobright_scrape.py: the recursive discovery of job-shaped    *)
(* mappings in a JSON payload (_extract_job_dicts), the field normalizers  *)
(* (extract_company, extract_linkedin_recruiters, extract_keywords,        *)
(* norm_url) and the pagination loop of fetch_recommendations_via_api.     *)
(*                                                                         *)
(* Python values are tagged records: k is the kind, v the content.  A      *)
(* string is the sequence of its characters, a list the sequence of its    *)
(* items, a dict the sequence of its <<key, value>> pairs in insertion     *)
(* order (keys are written as TLA+ strings).  A raised exception is the    *)
(* value Exc(name); every operator that models a Python function returns   *)
(* either the function's value or the exception that leaves it.            *)
(***************************************************************************)
EXTENDS Integers, Sequences, FiniteSets, TLC

VARIABLES
    max_items, page_size,          \* the arguments of fetch_recommendations_via_api
    pc,                            \* where the pagination run stands
    out, seen_ids,                 \* the accumulated records and the seen-ID set
    position, refresh,             \* the offset and the refresh flag of the next request
    count, page_requests,          \* this iteration's count and the requests issued in it
    n_requests, n_goto,            \* API requests and re-navigations issued so far
    state_saves, browser_open,     \* writes of STATE_FILE; whether the browser is open
    resp,                          \* the response to the request, None until it is in
    status,                        \* resp.status of the latest response
    error, returned,               \* the exception that left the run; the value returned
    hist,                          \* what the remote API has answered so far (observer)
    fn_pc, fn_in, fn_out           \* a single call of one of the pure functions

vars == <<max_items, page_size, pc, out, seen_ids, position, refresh, count,
          page_requests, n_requests, n_goto, state_saves, browser_open, resp,
          status, error, returned, hist, fn_pc, fn_in, fn_out>>

pag_vars == <<max_items, page_size, pc, out, seen_ids, position, refresh, count,
              page_requests, n_requests, n_goto, state_saves, browser_open,
              resp, status, error, returned, hist>>

fn_vars == <<fn_pc, fn_in, fn_out>>

-----------------------------------------------------------------------------
(* Python values *)

None == [k |-> "null"]
JBool(b) == [k |-> "bool", v |-> b]
JNum(n) == [k |-> "num", v |-> n]
JStr(s) == [k |-> "str", v |-> s]
JList(xs) == [k |-> "list", v |-> xs]
JMap(kvs) == [k |-> "map", v |-> kvs]
Exc(name) == [k |-> "exc", v |-> name]

IsExc(x) == x.k = "exc"
IsStr(x) == x.k = "str"
IsList(x) == x.k = "list"
IsDict(x) == x.k = "map"

\* Python truthiness: bool(x).
Truthy(x) ==
    CASE x.k = "null" -> FALSE
      [] x.k = "bool" -> x.v
      [] x.k = "num" -> x.v # 0
      [] x.k \in {"str", "list", "map"} -> Len(x.v) > 0

\* a or b
PyOr(a, b) == IF Truthy(a) THEN a ELSE b

\* set(d.keys()), k in d, d[k], d.get(k), d.values()
Keys(d) == {d.v[i][1] : i \in 1..Len(d.v)}
HasKey(d, key) == key \in Keys(d)
Item(d, key) == d.v[CHOOSE i \in 1..Len(d.v) : d.v[i][1] = key][2]
DictGet(d, key) == IF HasKey(d, key) THEN Item(d, key) ELSE None
DictGetDefault(d, key, default) == IF HasKey(d, key) THEN Item(d, key) ELSE default
Values(d) == [i \in 1..Len(d.v) |-> d.v[i][2]]

SeqMin(S) == CHOOSE i \in S : \A j \in S : i <= j

-----------------------------------------------------------------------------
(* Python strings, as sequences of characters *)

Whitespace == {" ", "\t", "\n", "\r"}
UPPER ==
    <<"A", "B", "C", "D", "E", "F", "G", "H", "I", "J", "K", "L", "M",
      "N", "O", "P", "Q", "R", "S", "T", "U", "V", "W", "X", "Y", "Z">>
LOWER ==
    <<"a", "b", "c", "d", "e", "f", "g", "h", "i", "j", "k", "l", "m",
      "n", "o", "p", "q", "r", "s", "t", "u", "v", "w", "x", "y", "z">>
DIGITS == <<"0", "1", "2", "3", "4", "5", "6", "7", "8", "9">>
Range(s) == {s[i] : i \in 1..Len(s)}
Upper == Range(UPPER)
Lower == Range(LOWER)
Digit == Range(DIGITS)

RECURSIVE LStrip(_)
LStrip(s) ==
    IF s # <<>> /\ Head(s) \in Whitespace THEN LStrip(Tail(s)) ELSE s

RECURSIVE RStrip(_)
RStrip(s) ==
    IF s # <<>> /\ s[Len(s)] \in Whitespace
    THEN RStrip(SubSeq(s, 1, Len(s) - 1))
    ELSE s

\* str.strip()
Strip(s) == RStrip(LStrip(s))

LowerChar(c) ==
    IF c \in Upper THEN LOWER[CHOOSE i \in 1..Len(UPPER) : UPPER[i] = c] ELSE c

\* str.lower()
ToLower(s) == [i \in 1..Len(s) |-> LowerChar(s[i])]

\* sub in s
Contains(s, sub) ==
    \E i \in 0..(Len(s) - Len(sub)) : SubSeq(s, i + 1, i + Len(sub)) = sub

\* s.startswith(prefix)
StartsWith(s, prefix) ==
    Len(s) >= Len(prefix) /\ SubSeq(s, 1, Len(prefix)) = prefix

\* s.find(c): the first index of character c in s, 0 when there is none
FirstIndex(s, cs) ==
    IF \E i \in 1..Len(s) : s[i] \in cs
    THEN SeqMin({i \in 1..Len(s) : s[i] \in cs})
    ELSE 0

RECURSIVE Decimal(_)
Decimal(n) ==
    IF n < 10 THEN <<DIGITS[n + 1]>>
    ELSE Decimal(n \div 10) \o <<DIGITS[(n % 10) + 1]>>

\* repr(x).  A string is written between single quotes (the modelled strings
\* hold no quote or backslash); a dict key, which the model does not spell
\* out, is one element of the text.
RECURSIVE PyRepr(_), ReprItems(_), ReprPairs(_)
PyRepr(x) ==
    CASE x.k = "null" -> <<"N", "o", "n", "e">>
      [] x.k = "bool" -> IF x.v THEN <<"T", "r", "u", "e">>
                         ELSE <<"F", "a", "l", "s", "e">>
      [] x.k = "num" -> IF x.v < 0 THEN <<"-">> \o Decimal(0 - x.v) ELSE Decimal(x.v)
      [] x.k = "str" -> <<"'">> \o x.v \o <<"'">>
      [] x.k = "list" -> <<"[">> \o ReprItems(x.v) \o <<"]">>
      [] x.k = "map" -> <<"{">> \o ReprPairs(x.v) \o <<"}">>

ReprItems(xs) ==
    IF xs = <<>> THEN <<>>
    ELSE PyRepr(Head(xs))
         \o (IF Len(xs) > 1 THEN <<",", " ">> ELSE <<>>)
         \o ReprItems(Tail(xs))

ReprPairs(kvs) ==
    IF kvs = <<>> THEN <<>>
    ELSE <<"'", Head(kvs)[1], "'", ":", " ">> \o PyRepr(Head(kvs)[2])
         \o (IF Len(kvs) > 1 THEN <<",", " ">> ELSE <<>>)
         \o ReprPairs(Tail(kvs))

\* str(x), and f"{x}"
PyStr(x) == IF IsStr(x) THEN x.v ELSE PyRepr(x)

-----------------------------------------------------------------------------
(* _pick and _extract_job_dicts *)

\* the first of keys present in d with a value that is not None, else None
_pick(d, keys) ==
    LET hits == {i \in 1..Len(keys) : HasKey(d, keys[i]) /\ Item(d, keys[i]) # None}
    IN  IF hits = {} THEN None ELSE Item(d, keys[SeqMin(hits)])

PROFILE_KEYS == {"firstName", "fullName", "linkedinUrl"}
ID_KEYS == {"jobInfoId", "jobId", "job_id", "jobID", "id"}
TITLE_KEYS == {"jobTitle", "title", "positionTitle", "name"}
COMPANY_KEYS == {"companyName", "company", "company_name"}
APPLY_KEYS ==
    {"applyUrl", "applyURL", "applyLink", "externalUrl", "sourceUrl", "url",
     "originalUrl"}

is_job(d) ==
    LET keys == Keys(d)
    IN  IF keys \cap PROFILE_KEYS # {} THEN FALSE
        ELSE LET has_id == keys \cap ID_KEYS # {}
                 has_title == keys \cap TITLE_KEYS # {}
                 has_company == keys \cap COMPANY_KEYS # {}
                 has_apply == keys \cap APPLY_KEYS # {}
             IN  has_id /\ has_title /\ (has_company \/ has_apply)

RECURSIVE walk(_), walk_each(_)
\* the job-shaped mappings appended to jobs by walk(x), in the order of the appends
walk(x) ==
    IF IsDict(x)
    THEN (IF is_job(x) THEN <<x>> ELSE <<>>) \o walk_each(Values(x))
    ELSE IF IsList(x) THEN walk_each(x.v) ELSE <<>>

walk_each(xs) ==
    IF xs = <<>> THEN <<>> ELSE walk(Head(xs)) \o walk_each(Tail(xs))

_extract_job_dicts(obj) == walk(obj)

-----------------------------------------------------------------------------
(* The library calls of the normalizers: urllib.parse and the two patterns *)

BASE ==
    <<"h", "t", "t", "p", "s", ":", "/", "/",
      "j", "o", "b", "r", "i", "g", "h", "t", ".", "a", "i">>

SchemeChars == Upper \cup Lower \cup Digit \cup {"+", "-", "."}

\* The part of s from index i on, and the part before the first c.
From(s, i) == SubSeq(s, i, Len(s))
Before(s, c) ==
    LET i == FirstIndex(s, {c}) IN IF i = 0 THEN s ELSE SubSeq(s, 1, i - 1)

\* The first of the values rs that is not None, else None.
FirstNotNone(rs) ==
    LET hits == {i \in 1..Len(rs) : rs[i] # None}
    IN  IF hits = {} THEN None ELSE rs[SeqMin(hits)]

\* urlsplit drops leading blanks and every tab and line break of the url.
url_clean(url) ==
    LET kept(c) == c \notin {"\t", "\n", "\r"} IN SelectSeq(LStrip(url), kept)

\* the url after its scheme: what precedes the first ":" when it starts with
\* a letter and holds scheme characters only
after_scheme(url) ==
    LET colon == FirstIndex(url, {":"})
    IN  IF /\ colon > 1
           /\ url[1] \in Upper \cup Lower
           /\ \A i \in 1..(colon - 1) : url[i] \in SchemeChars
        THEN From(url, colon + 1)
        ELSE url

\* A netloc holding "[" without "]", or the reverse, raises
\* ValueError("Invalid IPv6 URL"); the fragment and the query are cut off the
\* rest.  The modelled URLs hold no netloc with both brackets, whose
\* validation differs between Python releases.
url_parts(netloc, rest) ==
    IF ("[" \in Range(netloc)) # ("]" \in Range(netloc))
    THEN Exc("ValueError")
    ELSE [k |-> "url", netloc |-> netloc, path |-> Before(Before(rest, "#"), "?")]

\* the netloc runs to the first "/", "?" or "#", at index delim of after
cut_netloc(after, delim) ==
    IF delim = 0 THEN url_parts(after, <<>>)
    ELSE url_parts(SubSeq(after, 1, delim - 1), From(after, delim))

\* a netloc follows a leading "//"
split_netloc(rest) ==
    IF StartsWith(rest, <<"/", "/">>)
    THEN cut_netloc(From(rest, 3), FirstIndex(From(rest, 3), {"/", "?", "#"}))
    ELSE url_parts(<<>>, rest)

\* urlsplit(url), of which the model keeps the netloc and the path
urlsplit(url) == split_netloc(after_scheme(url_clean(url)))

\* the parameters after the first ";" of the last path segment are cut off
cut_params(path) ==
    LET slashes == {i \in 1..Len(path) : path[i] = "/"}
        last_slash == IF slashes = {} THEN 0
                      ELSE CHOOSE i \in slashes : \A j \in slashes : j <= i
        semis == {i \in 1..Len(path) : path[i] = ";" /\ i > last_slash}
    IN  IF semis = {} THEN path ELSE SubSeq(path, 1, SeqMin(semis) - 1)

path_of(parts) == IF IsExc(parts) THEN parts ELSE JStr(cut_params(parts.path))

\* urlparse(url).path
urlparse_path(url) == path_of(urlsplit(url))

\* A reference starting with "//" names its own host and keeps only BASE's
\* scheme; any other replaces BASE's (empty) path.
joined(u, parts) ==
    IF IsExc(parts) THEN parts
    ELSE IF parts.netloc # <<>> THEN JStr(SubSeq(BASE, 1, 6) \o u)
    ELSE JStr(BASE \o u)

\* urljoin(BASE, u) for the u that norm_url passes, which start with "/":
\* urlparse(u) may raise.  The modelled URLs hold no "." or ".." segment,
\* which urljoin would resolve.
urljoin_base(u) == joined(u, urlsplit(u))

SummaryClass == Upper \cup Lower \cup Digit \cup {"&", ".", ",", "'", "-", " "}

\* the text s matches ^([A-Z][class]{1,80})\s+is\s+ with a group of n characters
summary_fits(s, n) ==
    /\ n <= Len(s)
    /\ s[1] \in Upper
    /\ \A i \in 2..n : s[i] \in SummaryClass
    /\ \E w \in 1..(Len(s) - n) :
          /\ \A i \in (n + 1)..(n + w) : s[i] \in Whitespace
          /\ Len(s) >= n + w + 3
          /\ s[n + w + 1] = "i"
          /\ s[n + w + 2] = "s"
          /\ s[n + w + 3] \in Whitespace

\* the group is greedy: the longest that lets the rest of the pattern match
longest_group(s, lens) ==
    IF lens = {} THEN None
    ELSE JStr(SubSeq(s, 1, CHOOSE n \in lens : \A m \in lens : m <= n))

\* _COMPANY_FROM_SUMMARY.match(s): group(1), or None when there is no match
match_summary(s) == longest_group(s, {n \in 2..81 : summary_fits(s, n)})

LogoClass == Upper \cup Lower \cup Digit \cup {"-"}

\* the end of the run of [A-Za-z0-9-] that starts after index i of path
logo_run_end(path, i) ==
    LET stops == {j \in (i + 1)..Len(path) : path[j] \notin LogoClass}
    IN  IF stops = {} THEN Len(path) ELSE SeqMin(stops) - 1

\* a "/" at index i, a run of at least one character up to index e, "_logo"
logo_hit(path, i, e) ==
    /\ path[i] = "/"
    /\ e > i
    /\ Len(path) >= e + 5
    /\ ToLower(SubSeq(path, e + 1, e + 5)) = <<"_", "l", "o", "g", "o">>

leftmost_group(path, hits) ==
    IF hits = {} THEN None
    ELSE JStr(SubSeq(path, SeqMin(hits) + 1, logo_run_end(path, SeqMin(hits))))

\* _COMPANY_FROM_LOGO.search(path): /([A-Za-z0-9-]+)_logo, case ignored;
\* group(1) of the leftmost match, or None
search_logo(path) ==
    leftmost_group(path, {i \in 1..Len(path) : logo_hit(path, i, logo_run_end(path, i))})

-----------------------------------------------------------------------------
(* The field normalizers *)

\* isinstance(c, str) and c.strip()
NonBlankStr(c) == IsStr(c) /\ Strip(c.v) # <<>>

\* c.strip() when c is a string that is not blank, else None
stripped(c) == IF NonBlankStr(c) THEN JStr(Strip(c.v)) ELSE None

\* if isinstance(company, dict): company = _pick(company, "name", "companyName")
unwrap_company(c) == IF IsDict(c) THEN _pick(c, <<"name", "companyName">>) ELSE c

company_direct(job) ==
    stripped(unwrap_company(_pick(job, <<"companyName", "company", "company_name",
                                         "jdCompanyName", "companyDisplayName",
                                         "companyTitle">>)))

info_name(v) ==
    IF IsDict(v) THEN stripped(_pick(v, <<"name", "companyName", "displayName">>))
    ELSE None

company_from_info(job) ==
    FirstNotNone(<<info_name(DictGet(job, "companyInfo")),
                   info_name(DictGet(job, "companyVO")),
                   info_name(DictGet(job, "companyDto"))>>)

person_company(person) ==
    IF IsDict(person) THEN stripped(DictGet(person, "companyName")) ELSE None

social_company(sc) ==
    IF IsList(sc) THEN FirstNotNone([i \in 1..Len(sc.v) |-> person_company(sc.v[i])])
    ELSE None

summary_company(summary) ==
    IF NonBlankStr(summary) THEN stripped(match_summary(Strip(summary.v))) ELSE None

searched(path) == IF IsExc(path) THEN path ELSE search_logo(path.v)

logo_company(logo) ==
    IF NonBlankStr(logo) THEN searched(urlparse_path(logo.v)) ELSE None

\* The fallbacks in the order of the code; the first that yields a name ends
\* the function, and so does the exception of urlparse, which is reached only
\* when the fallbacks before it yield nothing.
extract_company(job) ==
    FirstNotNone(<<company_direct(job),
                   company_from_info(job),
                   social_company(DictGet(job, "socialConnections")),
                   summary_company(DictGet(job, "jobSummary")),
                   logo_company(DictGet(job, "jdLogo"))>>)

RECRUITER_WORDS ==
    {<<"r", "e", "c", "r", "u", "i", "t">>, <<"t", "a", "l", "e", "n", "t">>,
     <<"s", "o", "u", "r", "c">>, <<"h", "r">>}

\* title.lower() is an attribute of str alone: on any other value it raises
\* AttributeError.
title_lower(title) ==
    IF IsStr(title) THEN JStr(ToLower(title.v)) ELSE Exc("AttributeError")

\* the entry appended for person p
recruiter_entry(p) ==
    JMap(<< <<"fullName",
              PyOr(DictGet(p, "fullName"),
                   PyOr(JStr(Strip(PyStr(DictGetDefault(p, "firstName", JStr(<<>>))))),
                        None))>>,
            <<"jobTitle", DictGet(p, "jobTitle")>>,
            <<"companyName", DictGet(p, "companyName")>>,
            <<"linkedinUrl", DictGet(p, "linkedinUrl")>> >>)

\* The loop over sc, started with the list acc; an exception leaves it.
RECURSIVE recruiters_loop(_, _), recruiter_step(_, _, _)
recruiters_loop(sc, acc) ==
    IF sc = <<>> THEN JList(acc)
    ELSE IF ~IsDict(Head(sc)) THEN recruiters_loop(Tail(sc), acc)
    ELSE recruiter_step(sc, acc,
                        title_lower(PyOr(DictGet(Head(sc), "jobTitle"), JStr(<<>>))))

recruiter_step(sc, acc, title_l) ==
    IF IsExc(title_l) THEN title_l
    ELSE recruiters_loop(Tail(sc),
                         IF \E w \in RECRUITER_WORDS : Contains(title_l.v, w)
                         THEN Append(acc, recruiter_entry(Head(sc)))
                         ELSE acc)

recruiters_of(sc) == IF ~IsList(sc) THEN JList(<<>>) ELSE recruiters_loop(sc.v, <<>>)

extract_linkedin_recruiters(job) == recruiters_of(DictGet(job, "socialConnections"))

\* The strings among the values xs, in order.
Strings(xs) ==
    LET strs == SelectSeq(xs, IsStr) IN [i \in 1..Len(strs) |-> strs[i].v]

\* v when it is a list, else no items
items_of(v) == IF IsList(v) THEN v.v ELSE <<>>

skill_of(s) == IF IsDict(s) THEN DictGet(s, "skill") ELSE None
score_name(s) ==
    IF IsDict(s) THEN PyOr(DictGet(s, "displayName"), DictGet(s, "featureName"))
    ELSE None

core_skills(core) == Strings([i \in 1..Len(core) |-> skill_of(core[i])])
score_names(sms) == Strings([i \in 1..Len(sms) |-> score_name(sms[i])])

\* kws as it stands before the de-duplicating loop
kw_candidates(job) ==
    core_skills(items_of(DictGet(job, "jdCoreSkills")))
    \o score_names(items_of(DictGet(job, "skillMatchingScores")))
    \o Strings(items_of(DictGet(job, "recommendationTags")))
    \o Strings(items_of(DictGet(job, "jobTags")))
    \o Strings(items_of(DictGet(job, "jobTaxonomyV3")))
    \o Strings(<<DictGet(job, "firstTaxonomy")>>)

\* len(out) >= max_kw, tested after each append
kw_full(kw_out, max_kw) == Len(kw_out) >= max_kw

\* The de-duplicating loop over kws, started with the list acc.
RECURSIVE kw_loop(_, _, _), kw_step(_, _, _, _)
kw_loop(kws, acc, max_kw) ==
    IF kws = <<>> THEN acc ELSE kw_step(kws, acc, max_kw, Strip(Head(kws)))

kw_step(kws, acc, max_kw, x) ==
    IF x = <<>> \/ x \in Range(acc) THEN kw_loop(Tail(kws), acc, max_kw)
    ELSE IF kw_full(Append(acc, x), max_kw) THEN Append(acc, x)
    ELSE kw_loop(Tail(kws), Append(acc, x), max_kw)

extract_keywords(job, max_kw) == kw_loop(kw_candidates(job), <<>>, max_kw)

DEFAULT_MAX_KW == 25

joined_or_same(u) == IF StartsWith(u, <<"/">>) THEN urljoin_base(u) ELSE JStr(u)

norm_url(u) ==
    IF ~IsStr(u) \/ Strip(u.v) = <<>> THEN None ELSE joined_or_same(Strip(u.v))

\* if not company: company = extract_company(j)
company_of(company, j) == IF ~Truthy(company) THEN extract_company(j) ELSE company

\* if isinstance(location, dict): location = _pick(location, "name", "displayName")
unwrap_location(l) == IF IsDict(l) THEN _pick(l, <<"name", "displayName">>) ELSE l

\* if jobright_url is None and job_id_str: the URL is made from the identifier
jobright_url_of(url, id) ==
    IF url = None /\ Truthy(id)
    THEN JStr(BASE \o <<"/", "j", "o", "b", "s", "/", "i", "n", "f", "o", "/">> \o id.v)
    ELSE url

\* The record appended to out, or the first exception raised on the way to it.
make_record(j, id, company, apply_url, jobright_url, recruiters) ==
    IF IsExc(company) THEN company
    ELSE IF IsExc(apply_url) THEN apply_url
    ELSE IF IsExc(jobright_url) THEN jobright_url
    ELSE IF IsExc(recruiters) THEN recruiters
    ELSE [k |-> "record",
          jobId |-> id,
          title |-> _pick(j, <<"jobTitle", "title", "positionTitle", "name">>),
          company |-> company,
          location |-> unwrap_location(_pick(j, <<"jobLocation", "location",
                                                  "locationName", "city">>)),
          jobright_url |-> jobright_url_of(jobright_url, id),
          apply_url |-> apply_url,
          linkedin_recruiters |-> recruiters.v,
          keywords |-> extract_keywords(j, DEFAULT_MAX_KW),
          raw |-> j]

\* The body of the for loop from the title on, for the job dict j with
\* identifier id (job_id_str).
normalize(j, id) ==
    make_record(j, id,
                company_of(unwrap_company(_pick(j, <<"companyName", "company",
                                                     "company_name">>)), j),
                norm_url(_pick(j, <<"applyUrl", "applyURL", "applyLink", "externalUrl",
                                    "sourceUrl", "url", "originalUrl">>)),
                norm_url(_pick(j, <<"detailUrl", "jobUrl", "infoUrl", "jobrightUrl">>)),
                extract_linkedin_recruiters(j))

-----------------------------------------------------------------------------
(* fetch_recommendations_via_api: the bounds and the remote API's answers *)

MaxItems == 2
MaxPageSize == 2
SORT_CONDITION == 0

Min(a, b) == IF a <= b THEN a ELSE b

\* A job-shaped mapping with identifier id, and the two the API may nest in it:
\* a "similar jobs" block and a social connection.
Job(id) ==
    JMap(<< <<"jobInfoId", id>>, <<"jobTitle", JStr(<<"T">>)>>,
            <<"companyName", JStr(<<"C">>)>> >>)
JobWith(id, key, value) == JMap(Job(id).v \o << <<key, value>> >>)

PageIds == {None, JStr(<<>>), JNum(1), JStr(<<"1">>), JStr(<<"2">>)}

PageJobs ==
    {Job(id) : id \in PageIds}
    \cup {JobWith(JStr(<<"1">>), "similarJobs", JList(<<Job(JStr(<<"2">>))>>)),
          JobWith(JStr(<<"3">>), "socialConnections",
                  JList(<<JMap(<< <<"jobTitle", JNum(5)>> >>)>>))}

SeqsUpTo(S, n) == UNION {[1..m -> S] : m \in 0..n}

\* The bodies the API may answer a request for n records with: a JSON payload
\* holding up to n of the mappings above, or a body that is not JSON.
NotJson == [k |-> "text"]
Bodies(n) ==
    {JMap(<< <<"data", JMap(<< <<"jobs", JList(jobs)>> >>)>> >>) :
        jobs \in SeqsUpTo(PageJobs, n)}
    \cup {NotJson}

Statuses == {200, 401, 403, 500}

\* resp.json()
resp_json(body) == IF body = NotJson THEN Exc("JSONDecodeError") ELSE body

\* What the API may answer a request for n records with.  The body of an
\* answer other than 200 is never read.
Answers(n) ==
    {[status |-> 200, body |-> b] : b \in Bodies(n)}
    \cup {[status |-> s, body |-> NotJson] : s \in Statuses \ {200}}

\* The answers to a request, by its count.
AnswersTo == [n \in 0..MaxPageSize |-> Answers(n)]

-----------------------------------------------------------------------------
(* fetch_recommendations_via_api: the loop *)

auth_failed_only_401(s) == s = 401

\* resp.status in (401, 403)
auth_failed(s) == s \in {401, 403}

\* count = min(page_size, max_items - len(out))
page_count(ps, max, o) == Min(ps, max - Len(o))

\* url: RECS_API with the urlencoded query, kept as its parameters
request_url(rf, pos, cnt) ==
    [api |-> "RECS_API", refresh |-> rf, sortCondition |-> Decimal(SORT_CONDITION),
     position |-> Decimal(pos), count |-> Decimal(cnt)]

\* PermissionError(f"Auth failed calling {url} (HTTP {resp.status}). ...")
PermissionError(url, s) ==
    [k |-> "exc", v |-> "PermissionError", url |-> url, status |-> s]

\* job_id_str: str(job_id) if job_id is not None else None
str_or_none(job_id) == IF job_id # None THEN JStr(PyStr(job_id)) ELSE None
job_id_str(j) == str_or_none(_pick(j, <<"jobInfoId", "jobId", "id", "job_id", "jobID">>))

\* if job_id_str and job_id_str in seen_ids: continue
is_duplicate(id, seen) == Truthy(id) /\ id.v \in seen

reached_max_off_by_one(o, max) == Len(o) > max

\* if len(out) >= max_items: break
reached_max(o, max) == Len(o) >= max

no_progress_never(added) == FALSE

\* if added == 0: break
no_progress(added) == added = 0

\* out.append(...); if job_id_str: seen_ids.add(job_id_str); added += 1
appended(st, id, rec) ==
    [out |-> Append(st.out, rec),
     seen_ids |-> IF Truthy(id) THEN st.seen_ids \cup {id.v} ELSE st.seen_ids,
     added |-> st.added + 1,
     exc |-> None]

\* The for loop over job_dicts from the state st = [out, seen_ids, added, exc]:
\* the state it ends in, exc being the exception that left it, if any.
RECURSIVE for_jobs(_, _, _), for_job(_, _, _, _), after_normalize(_, _, _, _, _),
          after_append(_, _, _)
for_jobs(job_dicts, st, max) ==
    IF job_dicts = <<>> THEN st
    ELSE for_job(job_dicts, st, max, job_id_str(Head(job_dicts)))

for_job(job_dicts, st, max, id) ==
    IF is_duplicate(id, st.seen_ids) THEN for_jobs(Tail(job_dicts), st, max)
    ELSE after_normalize(job_dicts, st, max, id, normalize(Head(job_dicts), id))

after_normalize(job_dicts, st, max, id, rec) ==
    IF IsExc(rec) THEN [st EXCEPT !.exc = rec]
    ELSE after_append(job_dicts, appended(st, id, rec), max)

after_append(job_dicts, st, max) ==
    IF reached_max(st.out, max) THEN st ELSE for_jobs(Tail(job_dicts), st, max)

\* The outcome of an iteration: where the run goes (pc), out and seen_ids as
\* the iteration leaves them, the exception raised, the job dicts discovered.
Outcome(to, o, seen, exc, found) ==
    [pc |-> to, out |-> o, seen_ids |-> seen, error |-> exc, found |-> found]

\* the end of the for loop in state st: if added == 0: break
after_for(job_dicts, st) ==
    Outcome(IF st.exc # None THEN "raised"
            ELSE IF no_progress(st.added) THEN "break"
            ELSE "loop",
            st.out, st.seen_ids, st.exc, job_dicts)

\* if not job_dicts: the payload is dumped and the loop left
after_discovery(job_dicts) ==
    IF job_dicts = <<>> THEN Outcome("break", out, seen_ids, None, <<>>)
    ELSE after_for(job_dicts,
                   for_jobs(job_dicts,
                            [out |-> out, seen_ids |-> seen_ids, added |-> 0,
                             exc |-> None],
                            max_items))

after_json(data) ==
    IF IsExc(data) THEN Outcome("raised", out, seen_ids, data, <<>>)
    ELSE after_discovery(_extract_job_dicts(data))

is_error_status_never(s) == FALSE

\* if resp.status != 200: the loop is left
is_error_status(s) == s # 200

\* What the rest of the iteration does with the response (s, body), from the
\* second test of resp.status on.
outcome(s, body) ==
    IF auth_failed(s)
    THEN Outcome("raised", out, seen_ids, PermissionError(page_requests[1], s), <<>>)
    ELSE IF is_error_status(s) THEN Outcome("break", out, seen_ids, None, <<>>)
    ELSE after_json(resp_json(body))

\* The identifiers of the job dicts found.
ids_of(found) == [i \in 1..Len(found) |-> job_id_str(found[i])]

\* The observer's record of the answer with status s, which ends the
\* iteration (ended) or not, and in which the job dicts with identifiers ids
\* were discovered.
observe(s, ended, ids) ==
    [hist EXCEPT
        !.statuses = @ \cup {s},
        !.responses = @ + 1,
        !.fresh = /\ @
                  /\ \/ ~ended
                     \/ /\ s = 200
                        /\ Len(ids) = count
                        /\ \A i \in 1..Len(ids) :
                              ids[i] # None /\ ids[i].v \notin hist.returned_ids
                        /\ \A i, j \in 1..Len(ids) : i # j => ids[i] # ids[j],
        !.returned_ids = @ \cup {ids[i].v : i \in {n \in 1..Len(ids) : ids[n] # None}},
        !.sum_counts = IF ended THEN @ + count ELSE @,
        !.last_ids = IF ended THEN ids ELSE @,
        !.repeat = /\ ended
                   /\ ids # <<>>
                   /\ ids = hist.last_ids
                   /\ \A i \in 1..Len(ids) : ids[i] # None,
        !.out_prev = IF ended THEN out ELSE @,
        !.last_found = Len(ids)]

\* while len(out) < max_items: count, url and the request (lines 226-245)
IssueRequest ==
    /\ pc = "loop"
    /\ Len(out) < max_items
    /\ count' = page_count(page_size, max_items, out)
    /\ page_requests' = <<request_url(refresh, position, count')>>
    /\ n_requests' = n_requests + 1
    /\ resp' = None
    /\ pc' = "await"
    /\ hist' = [hist EXCEPT !.iterations = @ + 1]
    /\ UNCHANGED <<max_items, page_size, out, seen_ids, position, refresh, n_goto,
                   state_saves, browser_open, status, error, returned, fn_vars>>

\* The rest of the iteration, with outcome r, once the response that counts
\* is in: position += count and refresh = "false" when the loop goes on.  An
\* exception leaves the with block, which closes the browser.
Finish(s, r) ==
    /\ pc' = r.pc
    /\ out' = r.out
    /\ seen_ids' = r.seen_ids
    /\ error' = r.error
    /\ browser_open' = (r.pc # "raised")
    /\ position' = IF r.pc = "loop" THEN position + count ELSE position
    /\ refresh' = IF r.pc = "loop" THEN "false" ELSE refresh
    /\ hist' = observe(s, TRUE, ids_of(r.found))

\* The response to the iteration's request arrives: on 401 or 403 the page is
\* loaded again and the request sent again (lines 247-260), else the iteration
\* goes on with this response.
Receive(s, body) ==
    /\ pc = "await"
    /\ resp' = [status |-> s, body |-> body]
    /\ status' = s
    /\ IF auth_failed(s)
       THEN /\ n_goto' = n_goto + 1
            /\ page_requests' = Append(page_requests, page_requests[1])
            /\ n_requests' = n_requests + 1
            /\ pc' = "await_retry"
            /\ hist' = observe(s, FALSE, <<>>)
            /\ UNCHANGED <<out, seen_ids, position, refresh, browser_open, error>>
       ELSE /\ Finish(s, outcome(s, body))
            /\ UNCHANGED <<n_goto, page_requests, n_requests>>
    /\ UNCHANGED <<max_items, page_size, count, state_saves, returned, fn_vars>>

\* The response to the repeated request arrives (lines 262-336).
ReceiveRetry(s, body) ==
    /\ pc = "await_retry"
    /\ resp' = [status |-> s, body |-> body]
    /\ status' = s
    /\ Finish(s, outcome(s, body))
    /\ UNCHANGED <<max_items, page_size, count, page_requests, n_requests, n_goto,
                   state_saves, returned, fn_vars>>

\* After the loop: the session state is saved, the browser closed and out
\* returned (lines 338-341).
Return ==
    /\ \/ pc = "loop" /\ ~(Len(out) < max_items)
       \/ pc = "break"
    /\ state_saves' = state_saves + 1
    /\ browser_open' = FALSE
    /\ returned' = out
    /\ pc' = "done"
    /\ UNCHANGED <<max_items, page_size, out, seen_ids, position, refresh, count,
                   page_requests, n_requests, n_goto, resp, status, error, hist, fn_vars>>

Init ==
    /\ max_items \in 0..MaxItems
    /\ page_size \in 1..MaxPageSize
    /\ pc = "loop"
    /\ out = <<>>
    /\ seen_ids = {}
    /\ position = 0
    /\ refresh = "true"
    /\ count = 0
    /\ page_requests = <<>>
    /\ n_requests = 0
    /\ n_goto = 0
    /\ state_saves = 0
    /\ browser_open = TRUE
    /\ resp = None
    /\ status = 0
    /\ error = None
    /\ returned = <<>>
    /\ hist = [statuses |-> {}, responses |-> 0, iterations |-> 0, fresh |-> TRUE,
               returned_ids |-> {}, sum_counts |-> 0, last_ids |-> <<>>,
               repeat |-> FALSE, out_prev |-> <<>>, last_found |-> 0]
    /\ fn_pc = "idle" /\ fn_in = None /\ fn_out = None

Next ==
    \/ IssueRequest
    \/ \E a \in AnswersTo[count] : Receive(a.status, a.body)
    \/ \E a \in AnswersTo[count] : ReceiveRetry(a.status, a.body)
    \/ Return

Spec == Init /\ [][Next]_vars

FairSpec == Spec /\ WF_vars(Next)

-----------------------------------------------------------------------------
(* The pagination run: claims C1 to C7 *)

Stopped == pc \in {"break", "done"}
Ended == pc \in {"done", "raised"}
ResponseStep == hist'.responses = hist.responses + 1

C1_Step ==
    /\ (pc = "await" /\ ResponseStep /\ status' \in {401, 403})
          => /\ pc' = "await_retry"
             /\ n_goto' = n_goto + 1
             /\ n_requests' = n_requests + 1
             /\ page_requests' = <<page_requests[1], page_requests[1]>>
             /\ error' = None
    /\ (pc = "await_retry" /\ ResponseStep /\ status' \in {401, 403})
          => /\ pc' = "raised"
             /\ error' = PermissionError(page_requests[1], status')
             /\ n_requests' = n_requests
    /\ pc = "raised" => (pc' = "raised" /\ n_requests' = n_requests)

C1_Inv ==
    /\ Len(page_requests) <= 2
    /\ hist.statuses \subseteq {403} =>
          /\ hist.responses <= 2
          /\ hist.responses = 2 =>
                /\ pc = "raised"
                /\ n_requests = 2
                /\ error = PermissionError(page_requests[1], 403)

\* C1: a 401 or 403 answer makes the driver load the page again and send the
\* same request once more; a 401 or 403 answer to that raises PermissionError
\* with the URL and the status, after which no request is sent; an API that
\* answers 403 to every call gets exactly two requests.
C1_AuthRetryOnce == [][C1_Step]_vars /\ []C1_Inv

C1_Witness ==
    /\ pc = "raised"
    /\ hist.statuses = {403}
    /\ n_requests = 2
    /\ error = PermissionError(page_requests[1], 403)

DistinctJobIds(o) ==
    \A i, j \in 1..Len(o) : (i # j /\ o[i].jobId # None) => o[i].jobId # o[j].jobId

WellBehaved == hist.fresh /\ hist.statuses \subseteq {200}

C2_Requests ==
    pc \in {"await", "await_retry"} =>
        /\ \A i \in 1..Len(page_requests) :
              page_requests[i].position = Decimal(hist.sum_counts)
        /\ count = Min(page_size, max_items - Len(out))
        /\ page_requests[1].count = Decimal(count)

\* C2: when every answer is 200 with exactly count job records whose ids are
\* fresh, the run returns exactly max_items records with distinct jobIds, and
\* every request's position is the sum of the counts of the earlier pages,
\* each count being min(page_size, max_items - len(out)).
C2_FreshPagesFillN ==
    (max_items >= 1 /\ WellBehaved) =>
        /\ C2_Requests
        /\ Ended =>
              /\ pc = "done"
              /\ Len(returned) = max_items
              /\ DistinctJobIds(returned)
              /\ \A i \in 1..Len(returned) : returned[i].jobId # None

\* The same, for the runs that no exception of the normalizers leaves.
C2_UnlessNormalizerRaises ==
    (pc = "raised" /\ error.v \in {"AttributeError", "ValueError"}) \/ C2_FreshPagesFillN

\* C3: no two records of out carry the same jobId, when the jobId is present.
C3_NoDuplicateJobId == DistinctJobIds(out)

\* The same, for the jobIds that are not the empty string.
C3_NoDuplicateNonEmptyJobId ==
    \A i, j \in 1..Len(out) :
        (i # j /\ Truthy(out[i].jobId)) => out[i].jobId # out[j].jobId

\* C4: out never holds more than max_items records, nor does the value returned.
C4_AtMostN == Len(out) <= max_items /\ (pc = "done" => Len(returned) <= max_items)

C4_Witness ==
    /\ pc = "done"
    /\ max_items >= 1
    /\ hist.last_found > count
    /\ Len(returned) = max_items

C5_Step ==
    (ResponseStep /\ pc' # "await_retry") =>
        \/ pc' \in {"break", "raised"}
        \/ Len(out') > Len(out)

\* C5: the loop terminates whatever the API answers: an iteration either ends
\* the loop or adds a record, so at most max_items pages are fetched.
C5_Terminates ==
    /\ [][C5_Step]_vars
    /\ [](hist.iterations <= max_items)
    /\ <>Ended

C5_Witness == pc = "done" /\ max_items >= 2 /\ hist.iterations = max_items

\* C6: an answer (to the request or to its repetition) that is neither 200 nor
\* 401/403 stops the paging without raising: no request follows, and the run
\* returns the records accumulated before, as they were.
C6_ErrorStatusStops ==
    status \notin {0, 200, 401, 403} =>
        /\ Stopped
        /\ error = None
        /\ out = hist.out_prev
        /\ n_requests = hist.responses
        /\ pc = "done" => returned = hist.out_prev

C6_Witness ==
    /\ pc = "done"
    /\ status = 500
    /\ n_goto >= 1
    /\ Len(returned) >= 1

\* A page that yields job records of which none is added stops the run.
C7_NoNewStops ==
    (status = 200 /\ hist.last_found > 0 /\ error = None /\ out = hist.out_prev)
        => Stopped

\* C7: a page that yields job records none of which is new stops the run with
\* no further request; in particular, when two consecutive pages return the
\* same ids, the second is the last and adds nothing to the result.
C7_SameIdsStop ==
    /\ C7_NoNewStops
    /\ hist.repeat => (Stopped /\ out = hist.out_prev)

\* The same, for pages whose ids are not the empty string.
C7_NonEmptyIdsStop ==
    /\ C7_NoNewStops
    /\ (hist.repeat /\ \A i \in 1..Len(hist.last_ids) : Truthy(hist.last_ids[i]))
          => (Stopped /\ out = hist.out_prev)

-----------------------------------------------------------------------------
(* Record discovery on its own: claim C8 *)

PagIdle ==
    /\ max_items = 0 /\ page_size = 1 /\ pc = "idle"
    /\ out = <<>> /\ seen_ids = {} /\ position = 0 /\ refresh = "true"
    /\ count = 0 /\ page_requests = <<>> /\ n_requests = 0 /\ n_goto = 0
    /\ state_saves = 0 /\ browser_open = FALSE /\ resp = None /\ status = 0 /\ error = None
    /\ returned = <<>>
    /\ hist = [statuses |-> {}, responses |-> 0, iterations |-> 0, fresh |-> TRUE,
               returned_ids |-> {}, sum_counts |-> 0, last_ids |-> <<>>,
               repeat |-> FALSE, out_prev |-> <<>>, last_found |-> 0]

MaxNest == 1

\* One key of each group the predicate looks at; a key is absent, present
\* with null, or present with a value.
DiscKeys == <<"fullName", "id", "title", "company", "url">>
Shapes == [1..Len(DiscKeys) -> {"absent", "null", "value"}]

shape_value(st) == IF st = "null" THEN None ELSE JStr(<<"x">>)
shape_present(f) == SelectSeq([i \in 1..Len(DiscKeys) |-> i], LAMBDA i : f[i] # "absent")
shape_pairs(f, present) ==
    [n \in 1..Len(present) |-> <<DiscKeys[present[n]], shape_value(f[present[n]])>>]
FlatMap(f) == JMap(shape_pairs(f, shape_present(f)))
FlatMaps == {FlatMap(f) : f \in Shapes}
SmallMaps == {FlatMap(f) : f \in {g \in Shapes : g[3] = "value" /\ g[4] = "absent" /\ g[5] = "value"}}

Nest(m, c) == JMap(m.v \o << <<"similarJobs", JList(<<JNum(1), c>>)>> >>)
RECURSIVE Chains(_)
Chains(d) ==
    IF d = 0 THEN SmallMaps
    ELSE SmallMaps \cup {Nest(m, c) : m \in SmallMaps, c \in Chains(d - 1)}
Wrap(m) == JMap(<< <<"code", JNum(200)>>, <<"result", JMap(<< <<"jobList", JList(<<m>>)>> >>)>> >>)
DiscInputs ==
    {Wrap(m) : m \in FlatMaps}
    \cup {Wrap(Nest(m, c)) : m \in FlatMaps, c \in Chains(MaxNest - 1)}

DiscInit == PagIdle /\ fn_pc = "call" /\ fn_in \in DiscInputs /\ fn_out = <<>>

CallExtractJobDicts ==
    /\ fn_pc = "call"
    /\ fn_out' = _extract_job_dicts(fn_in)
    /\ fn_pc' = "done"
    /\ UNCHANGED <<fn_in, pag_vars>>

DiscSpec == DiscInit /\ [][CallExtractJobDicts]_vars

\* Every mapping of a tree, at any depth, with the number of times it occurs.
RECURSIVE Mappings(_)
Mappings(x) ==
    IF IsDict(x) THEN {x} \cup UNION {Mappings(x.v[i][2]) : i \in 1..Len(x.v)}
    ELSE IF IsList(x) THEN UNION {Mappings(x.v[i]) : i \in 1..Len(x.v)}
    ELSE {}

RECURSIVE Sum(_)
Sum(ns) == IF ns = <<>> THEN 0 ELSE Head(ns) + Sum(Tail(ns))
RECURSIVE Occurrences(_, _)
Occurrences(m, x) ==
    IF IsDict(x)
    THEN (IF x = m THEN 1 ELSE 0) + Sum([i \in 1..Len(x.v) |-> Occurrences(m, x.v[i][2])])
    ELSE IF IsList(x) THEN Sum([i \in 1..Len(x.v) |-> Occurrences(m, x.v[i])])
    ELSE 0

JobShaped(K) ==
    /\ K \cap PROFILE_KEYS = {}
    /\ K \cap ID_KEYS # {}
    /\ K \cap TITLE_KEYS # {}
    /\ (K \cap COMPANY_KEYS # {} \/ K \cap APPLY_KEYS # {})

KeysPresent(m) == {m.v[i][1] : i \in 1..Len(m.v)}
KeysNonNull(m) == {m.v[i][1] : i \in {n \in 1..Len(m.v) : m.v[n][2] # None}}

AcceptsNonNull(m) == JobShaped(KeysNonNull(m))
AcceptsPresent(m) == JobShaped(KeysPresent(m))

\* fn_out holds the mappings of the set accepted, each as often as it occurs.
ReturnsExactly(accepted) ==
    fn_pc = "done" =>
        /\ Range(fn_out) = accepted
        /\ \A m \in Range(fn_out) :
              Len(SelectSeq(fn_out, LAMBDA r : r = m)) = Occurrences(m, fn_in)

\* C8: _extract_job_dicts returns exactly the mappings of the tree whose set
\* K of keys present with non-null values avoids the profile keys and meets
\* the identifier keys, the title keys, and the company or apply-URL keys.
C8_DiscoveryNonNullKeys ==
    ReturnsExactly({m \in Mappings(fn_in) : AcceptsNonNull(m)})

\* C8 as the code has it: the same, with K the set of all keys present on the
\* mapping, a key with a null value counting like any other.
C8_DiscoveryPresentKeys ==
    ReturnsExactly({m \in Mappings(fn_in) : AcceptsPresent(m)})

C8_Witness ==
    /\ fn_pc = "done"
    /\ \E m \in Range(fn_out) :
          /\ ~AcceptsNonNull(m)
          /\ \E c \in Mappings(m) \ {m} : AcceptsNonNull(c) /\ c \notin Range(fn_out)

-----------------------------------------------------------------------------
(* Normalization of one job candidate on its own: claim C9 *)

\* Values of every JSON kind.
JsonSamples ==
    {None, JNum(0), JNum(5), JBool(TRUE), JStr(<<>>), JStr(<<"h", "r">>),
     JStr(<<"/", "x">>), JStr(<<"/", "/", "[">>), JList(<<>>), JList(<<JNum(1)>>),
     JMap(<<>>), JMap(<< <<"name", JStr(<<"N">>)>> >>)}

\* The fields given a sample value; the last two set a field of the one entry
\* of socialConnections and of jdCoreSkills.
NormFields ==
    <<"companyName", "companyInfo", "applyUrl", "detailUrl", "jobLocation", "jdLogo",
      "jobSummary", "recommendationTags", "person.jobTitle", "skill.skill">>

field_pair(name, v) ==
    IF name = "person.jobTitle"
    THEN <<"socialConnections", JList(<<JMap(<< <<"jobTitle", v>> >>)>>)>>
    ELSE IF name = "skill.skill"
    THEN <<"jdCoreSkills", JList(<<JMap(<< <<"skill", v>> >>)>>)>>
    ELSE <<name, v>>

Candidate(pairs) ==
    JMap(<< <<"jobInfoId", JStr(<<"7">>)>>, <<"jobTitle", JStr(<<"T">>)>>,
            <<"url", None>> >> \o pairs)

NormInputs ==
    {Candidate(<<field_pair(NormFields[i], v)>>) :
        i \in 1..Len(NormFields), v \in JsonSamples}
    \cup {Candidate(<<field_pair(NormFields[ij[1]], v), field_pair(NormFields[ij[2]], w)>>) :
            ij \in {x \in (1..Len(NormFields)) \X (1..Len(NormFields)) : x[1] < x[2]},
            v \in JsonSamples, w \in JsonSamples}

NormInit == PagIdle /\ fn_pc = "call" /\ fn_in \in NormInputs /\ fn_out = None

StrList(strs) == JList([i \in 1..Len(strs) |-> JStr(strs[i])])

Called(name, result) ==
    /\ fn_pc = "call"
    /\ fn_pc' = name
    /\ fn_out' = result
    /\ UNCHANGED <<fn_in, pag_vars>>

CallNormalize == Called("normalize", normalize(fn_in, job_id_str(fn_in)))
CallExtractCompany == Called("extract_company", extract_company(fn_in))
CallExtractRecruiters == Called("extract_linkedin_recruiters", extract_linkedin_recruiters(fn_in))
CallExtractKeywords == Called("extract_keywords", StrList(extract_keywords(fn_in, DEFAULT_MAX_KW)))

NormNext ==
    \/ CallNormalize
    \/ CallExtractCompany
    \/ CallExtractRecruiters
    \/ CallExtractKeywords
NormSpec == NormInit /\ [][NormNext]_vars

\* C9: normalizing a job candidate whose fields hold values of any JSON kind
\* never raises: the loop's normalization step yields a record, and
\* extract_company, extract_linkedin_recruiters and extract_keywords yield
\* their value.
C9_NormalizeNeverRaises ==
    /\ fn_pc # "call" => ~IsExc(fn_out)
    /\ fn_pc = "normalize" => fn_out.k = "record"

\* The same, for the candidates whose social connections have a string or a
\* falsy jobTitle and whose URL fields urllib can split.
TitleRaises(j) ==
    /\ IsList(DictGet(j, "socialConnections"))
    /\ \E p \in Range(DictGet(j, "socialConnections").v) :
          /\ IsDict(p)
          /\ Truthy(DictGet(p, "jobTitle"))
          /\ ~IsStr(DictGet(p, "jobTitle"))
UrlRaises(j) ==
    \E key \in {"applyUrl", "detailUrl", "jdLogo"} :
        DictGet(j, key) = JStr(<<"/", "/", "[">>)
C9_UnlessTitleOrUrl == (TitleRaises(fn_in) \/ UrlRaises(fn_in)) \/ C9_NormalizeNeverRaises

-----------------------------------------------------------------------------
(* extract_keywords on its own: claim C10 *)

MaxKw == 3
MaxKwList == 2

KwSkills == {JMap(<< <<"skill", v>> >>) : v \in {JStr(<<"a", " ">>), JStr(<<"b">>), JNum(5)}}
KwTags == {JStr(<<"a">>), JStr(<<" ">>), JStr(<<"c">>)}
KwTaxonomies == {None, JStr(<<"d">>)}

KwJob(core, tags, ft) ==
    JMap(<< <<"jdCoreSkills", JList(core)>>, <<"recommendationTags", JList(tags)>>,
            <<"firstTaxonomy", ft>> >>)

KwInputs ==
    {[job |-> KwJob(core, tags, ft), max_kw |-> n] :
        core \in SeqsUpTo(KwSkills, MaxKwList), tags \in SeqsUpTo(KwTags, MaxKwList),
        ft \in KwTaxonomies, n \in 0..MaxKw}

KwInit == PagIdle /\ fn_pc = "call" /\ fn_in \in KwInputs /\ fn_out = <<>>

CallKeywords ==
    /\ fn_pc = "call"
    /\ fn_out' = extract_keywords(fn_in.job, fn_in.max_kw)
    /\ fn_pc' = "done"
    /\ UNCHANGED <<fn_in, pag_vars>>

KwSpec == KwInit /\ [][CallKeywords]_vars

\* The distinct, non-empty trimmed strings of strs, in first-seen order.
RECURSIVE FirstSeen(_, _)
FirstSeen(strs, acc) ==
    IF strs = <<>> THEN acc
    ELSE FirstSeen(Tail(strs),
                   IF Strip(Head(strs)) = <<>> \/ Strip(Head(strs)) \in Range(acc)
                   THEN acc ELSE Append(acc, Strip(Head(strs))))

Available == FirstSeen(kw_candidates(fn_in.job), <<>>)

KeywordsCapped(avail) ==
    /\ <<>> \notin Range(fn_out)
    /\ \A i, j \in 1..Len(fn_out) : i # j => fn_out[i] # fn_out[j]
    /\ Len(fn_out) <= Len(avail)
    /\ fn_out = SubSeq(avail, 1, Len(fn_out))
    /\ Len(fn_out) <= fn_in.max_kw
    /\ Len(avail) > fn_in.max_kw => Len(fn_out) = fn_in.max_kw

\* C10: for every max_kw >= 0 the list of extract_keywords has no empty string
\* and no duplicate, keeps the trimmed candidates in first-seen order of the
\* source priority, and has at most max_kw entries, exactly max_kw when more
\* distinct keywords are available.
C10_KeywordsCapped == fn_pc = "done" => KeywordsCapped(Available)

\* The same, for max_kw >= 1.
C10_PositiveMax == (fn_pc = "done" /\ fn_in.max_kw >= 1) => KeywordsCapped(Available)

-----------------------------------------------------------------------------
(* The session state file: claim C11 *)

\* The pages answered 200 and processed before the request now in flight, or
\* before the one whose repetition was refused: every earlier iteration.
PagesBefore == hist.iterations - 1

\* C11: each page fetched with HTTP 200 and processed is followed by a write
\* of the session-state file before the next page request is issued, and
\* before the run can abort on a later authorization failure.
C11_SavedAfterEachPage ==
    (\/ pc \in {"await", "await_retry"}
     \/ (pc = "raised" /\ error.v = "PermissionError"))
        => state_saves >= PagesBefore

\* What the run does: the file is written once, when the loop was left
\* without an exception, and never before.
C11_SavedOnceAtReturn == state_saves = (IF pc = "done" THEN 1 ELSE 0)

====
